---- MODULE Spec2Model ----
(***************************************************************************)
(* Image-enhancer: the ImageEnhancer class and the Streamlit page main()   *)
(* of src/image_enhance.py (OpenCV/SciPy variant, "cv") and                *)
(* src/fixed_image_enhance.py (PIL-only variant, "pil").                   *)
(*                                                                         *)
(* Numbers.  Every slider value is a decimal with step 0.1; the model      *)
(* keeps them as integers in hundredths (1.0 is 100, 0.3 is 30), so the    *)
(* comparisons and products of the code are computed exactly.  Pixel       *)
(* samples are integers 0..255.  A float array of numpy is a grid of       *)
(* integers in hundredths of a sample.                                     *)
(*                                                                         *)
(* Library kernels.  The weights of the resampling kernels and of the      *)
(* smoothing filters (cv2.resize, Image.resize, gaussian_filter,           *)
(* bilateralFilter, fastNlMeansDenoising, ImageFilter) live in the         *)
(* libraries, not in this repository.  The model keeps which kernel or     *)
(* filter is called and with which parameters, the modes and shapes each   *)
(* call accepts, and the size of the result; for the sample values it      *)
(* takes the nearest source pixel (resampling) and the equal-weight mean   *)
(* of the filtered axis (smoothing).                                       *)
(***************************************************************************)
EXTENDS Integers, Sequences, FiniteSets, TLC

VARIABLES variant, pc, session_enhancer, uploaded_file, original_image,
          settings, run, shown, stats

vars == <<variant, pc, session_enhancer, uploaded_file, original_image,
          settings, run, shown, stats>>

(***************************************************************************)
(* Bounds of the model.                                                    *)
(***************************************************************************)
MaxW == 2
MaxH == 2

Variants == {"cv", "pil"}

RECURSIVE SumRange(_, _, _)
SumRange(s, lo, hi) ==
    IF lo > hi THEN 0
    ELSE IF lo = hi THEN s[lo]
    ELSE SumRange(s, lo, (lo + hi) \div 2) + SumRange(s, ((lo + hi) \div 2) + 1, hi)

SumSeq(s) == SumRange(s, 1, Len(s))

Min(a, b) == IF a <= b THEN a ELSE b

(***************************************************************************)
(* Bitmaps: a PIL image is [mode, width, height, px], px row-major, one    *)
(* tuple of samples per pixel.                                             *)
(***************************************************************************)
Bands(mode) ==
    CASE mode = "L" -> 1
      [] mode = "P" -> 1
      [] mode = "LA" -> 2
      [] mode = "RGB" -> 3
      [] mode = "RGBA" -> 4

HasAlpha(mode) == mode \in {"LA", "RGBA"}

Checker(mode, w, h, c1, c2) ==
    [mode |-> mode, width |-> w, height |-> h,
     px |-> [i \in 1..(w * h) |->
               IF (((i - 1) % w) + ((i - 1) \div w)) % 2 = 0 THEN c1 ELSE c2]]

NoImage == [mode |-> "none", width |-> 0, height |-> 0, px |-> <<>>]

(***************************************************************************)
(* Pixel patterns of the inputs, per mode.                                 *)
(***************************************************************************)
Patterns(mode) ==
    CASE mode = "L" -> {<< <<128>>, <<128>> >>, << <<0>>, <<255>> >>,
                        << <<128>>, <<200>> >>}
      [] mode = "RGB" -> {<< <<128, 128, 128>>, <<128, 128, 128>> >>,
                          << <<255, 0, 0>>, <<20, 200, 250>> >>,
                          << <<255, 255, 255>>, <<0, 0, 0>> >>}
      [] mode = "P" -> {<< <<3>>, <<200>> >>}
      [] mode = "LA" -> {<< <<90, 255>>, <<250, 128>> >>}
      [] mode = "RGBA" -> {<< <<255, 0, 0, 255>>, <<20, 200, 250, 64>> >>}

BitmapsOf(modes) ==
    UNION {{Checker(m, w, h, p[1], p[2]) :
                w \in 1..MaxW, h \in 1..MaxH, p \in Patterns(m)} : m \in modes}

(***************************************************************************)
(* ParameterSet (the settings dict of main), in hundredths.                *)
(***************************************************************************)
Defaults ==
    [scale_factor |-> 100, interpolation |-> "Bicubic", brightness |-> 100,
     contrast |-> 100, saturation |-> 100, sharpness |-> 100,
     noise_reduction |-> 0]

Fields == {"scale_factor", "interpolation", "brightness", "contrast",
           "saturation", "sharpness", "noise_reduction"}

InterpolationNames == {"Bicubic", "Bilinear", "Lanczos", "Nearest"}

\* The slider ranges and the selectbox options of main.
InRange(s) ==
    /\ s.scale_factor >= 100 /\ s.scale_factor <= 400
    /\ s.interpolation \in InterpolationNames
    /\ s.brightness >= 50 /\ s.brightness <= 200
    /\ s.contrast >= 50 /\ s.contrast <= 200
    /\ s.saturation >= 0 /\ s.saturation <= 200
    /\ s.sharpness >= 50 /\ s.sharpness <= 300
    /\ s.noise_reduction >= 0 /\ s.noise_reduction <= 100

\* Values tried for each field: inside the ranges, on the band edges of the
\* denoiser, and outside the ranges (a direct caller of enhance_image).
FieldValues(f) ==
    CASE f = "scale_factor" -> {100, 150, 400, 500}
      [] f = "interpolation" -> InterpolationNames \cup {"Spline"}
      [] f = "brightness" -> {100, 150, 250}
      [] f = "contrast" -> {100, 50, 200}
      [] f = "saturation" -> {100, 0, 200}
      [] f = "sharpness" -> {100, 50, 300}
      [] f = "noise_reduction" -> {0, 10, 30, 31, 60, 61, 100}

AllSettings ==
    [scale_factor : FieldValues("scale_factor"),
     interpolation : FieldValues("interpolation"),
     brightness : FieldValues("brightness"),
     contrast : FieldValues("contrast"),
     saturation : FieldValues("saturation"),
     sharpness : FieldValues("sharpness"),
     noise_reduction : FieldValues("noise_reduction")]

\* A dict with every stage switched on, inside the ranges.
Busy ==
    [scale_factor |-> 150, interpolation |-> "Bilinear", brightness |-> 150,
     contrast |-> 200, saturation |-> 0, sharpness |-> 300,
     noise_reduction |-> 100]

\* The dicts that differ from base in the fields fs only.
Around(base, fs) == {s \in AllSettings : \A f \in Fields \ fs : s[f] = base[f]}

\* Settings a direct caller may pass: every pair of fields moved off the
\* defaults, and every single field moved off the all-stages dict.
CoreSettings ==
    UNION {Around(Defaults, {f, g}) : f \in Fields, g \in Fields}
    \cup UNION {Around(Busy, {f}) : f \in Fields}


(***************************************************************************)
(* Sample arithmetic.                                                      *)
(***************************************************************************)
\* The sum and the number of all samples of a pixel grid.
SumAll(px) == SumSeq([i \in DOMAIN px |-> SumSeq(px[i])])
CountAll(px) == SumSeq([i \in DOMAIN px |-> Len(px[i])])

\* Floor of the mean of a non-empty sequence of samples.
Mean(samples) == SumSeq(samples) \div Len(samples)

Channel(px, c) == [i \in DOMAIN px |-> px[i][c]]

\* A float of numpy, kept in 1/10000 of a sample.
ToFloat(v) == v * 10000
Trunc(x) == IF x >= 0 THEN x \div 10000 ELSE -((-x) \div 10000)

\* ndarray.astype('uint8'): truncation toward zero, then the low 8 bits.
astype_uint8(x) == Trunc(x) % 256
Overflows(x) == Trunc(x) < 0 \/ Trunc(x) > 255

np_clip_off(x) == x

\* np.clip(x, 0, 255) on a float.
np_clip(x) == IF x < 0 THEN 0 ELSE IF x > ToFloat(255) THEN ToFloat(255) ELSE x

\* Image.blend(im1, im2, alpha) on one sample: im1 + alpha * (im2 - im1),
\* clipped to 0..255 and truncated to 8 bits.
BlendSample(a, b, alpha) ==
    LET num == 100 * a + alpha * (b - a)
    IN IF num <= 0 THEN 0 ELSE IF num >= 25500 THEN 255 ELSE num \div 100

\* Image.convert("L") of one pixel (ITU-R 601-2 luma, 16-bit fixed point).
Luma(mode, p) ==
    IF mode \in {"RGB", "RGBA"}
    THEN (p[1] * 19595 + p[2] * 38470 + p[3] * 7471 + 32768) \div 65536
    ELSE p[1]

\* Image.convert(mode) of an "L" pixel of value l; alpha, where the mode has
\* one, is then copied from the source pixel p (putalpha).
FromLuma(mode, l, p) ==
    CASE mode = "L" -> <<l>>
      [] mode = "P" -> <<l>>
      [] mode = "LA" -> <<l, p[2]>>
      [] mode = "RGB" -> <<l, l, l>>
      [] mode = "RGBA" -> <<l, l, l, p[4]>>

(***************************************************************************)
(* Results of a library call: the image, the exception raised ("none" if   *)
(* none), and whether a conversion to 8 bits wrapped a sample.             *)
(***************************************************************************)
Ok(img) == [img |-> img, err |-> "none", wraps |-> FALSE]
Raise(img, e) == [img |-> img, err |-> e, wraps |-> FALSE]

\* Image.blend(degenerate, image, factor); refuses palette images.
blend(deg, image, factor) ==
    IF image.mode = "P"
    THEN Raise(image, "ValueError")
    ELSE Ok([image EXCEPT !.px =
               [i \in DOMAIN image.px |->
                  [c \in DOMAIN image.px[i] |->
                     BlendSample(deg[i][c], image.px[i][c], factor)]]])

\* ImageEnhance.Brightness(image).enhance(factor): blend with black.
ImageEnhance_Brightness(image, factor) ==
    blend([i \in DOMAIN image.px |->
             [c \in DOMAIN image.px[i] |->
                IF HasAlpha(image.mode) /\ c = Bands(image.mode)
                THEN image.px[i][c] ELSE 0]],
          image, factor)

\* ImageEnhance.Contrast(image).enhance(factor): blend with the uniform gray
\* of the image's mean luma, int(mean + 0.5).
ContrastMean(image) ==
    LET l == [i \in DOMAIN image.px |-> Luma(image.mode, image.px[i])]
    IN (2 * SumSeq(l) + Len(l)) \div (2 * Len(l))

ImageEnhance_Contrast(image, factor) ==
    LET m == ContrastMean(image)
    IN blend([i \in DOMAIN image.px |-> FromLuma(image.mode, m, image.px[i])],
             image, factor)

ImageEnhance_Color_black(image, factor) == ImageEnhance_Brightness(image, factor)

\* ImageEnhance.Color(image).enhance(factor): blend with the grayscale copy.
ImageEnhance_Color(image, factor) ==
    blend([i \in DOMAIN image.px |->
             FromLuma(image.mode, Luma(image.mode, image.px[i]), image.px[i])],
          image, factor)

\* Image.filter(kernel) with a smoothing kernel: per band; refuses palette
\* images.
SmoothBands(image) ==
    LET m == [c \in 1..Bands(image.mode) |-> Mean(Channel(image.px, c))]
    IN [image EXCEPT !.px =
          [i \in DOMAIN image.px |-> [c \in DOMAIN image.px[i] |-> m[c]]]]

Image_filter(image) ==
    IF image.mode = "P" THEN Raise(image, "ValueError")
    ELSE Ok(SmoothBands(image))

\* ImageEnhance.Sharpness(image).enhance(factor): blend with
\* image.filter(SMOOTH), alpha kept.
ImageEnhance_Sharpness(image, factor) ==
    LET sm == Image_filter(image)
    IN IF sm.err # "none" THEN sm
       ELSE blend([i \in DOMAIN image.px |->
                     [c \in DOMAIN image.px[i] |->
                        IF HasAlpha(image.mode) /\ c = Bands(image.mode)
                        THEN image.px[i][c] ELSE sm.img.px[i][c]]],
                  image, factor)

(***************************************************************************)
(* numpy arrays: [shape, px]; shape is <<height, width>> for one band and  *)
(* <<height, width, bands>> otherwise.                                     *)
(***************************************************************************)
np_array(image) ==
    [shape |-> IF Bands(image.mode) = 1
               THEN <<image.height, image.width>>
               ELSE <<image.height, image.width, Bands(image.mode)>>,
     px |-> image.px]

ArrayChannels(arr) == IF Len(arr.shape) = 3 THEN arr.shape[3] ELSE 1

\* Image.fromarray of a uint8 array: the mode follows the shape.
Image_fromarray(arr) ==
    [mode |-> CASE ArrayChannels(arr) = 1 -> "L"
                [] ArrayChannels(arr) = 2 -> "LA"
                [] ArrayChannels(arr) = 3 -> "RGB"
                [] ArrayChannels(arr) = 4 -> "RGBA",
     width |-> arr.shape[2], height |-> arr.shape[1], px |-> arr.px]

\* The pixels of a (w x h) grid resampled to (nw x nh).
Resample(px, w, h, nw, nh) ==
    [j \in 1..(nw * nh) |->
        px[Min((((j - 1) \div nw) * h) \div nh, h - 1) * w
           + Min((((j - 1) % nw) * w) \div nw, w - 1) + 1]]

(***************************************************************************)
(* upscale_image                                                           *)
(***************************************************************************)
\* interpolation_map.get(interpolation_method, cv2.INTER_CUBIC)
interpolation_map_cv(name) ==
    CASE name = "Bicubic" -> "INTER_CUBIC"
      [] name = "Bilinear" -> "INTER_LINEAR"
      [] name = "Lanczos" -> "INTER_LANCZOS4"
      [] name = "Nearest" -> "INTER_NEAREST"
      [] OTHER -> "INTER_CUBIC"

\* interpolation_map.get(interpolation_method, Image.BICUBIC)
interpolation_map_pil(name) ==
    CASE name = "Bicubic" -> "BICUBIC"
      [] name = "Bilinear" -> "BILINEAR"
      [] name = "Lanczos" -> "LANCZOS"
      [] name = "Nearest" -> "NEAREST"
      [] OTHER -> "BICUBIC"

\* int(x * scale_factor)
ScaledSize(x, scale_factor) == (x * scale_factor) \div 100

upscale_image_cv(img_array, scale_factor, interpolation_method) ==
    LET height == img_array.shape[1]
        width == img_array.shape[2]
        new_height == ScaledSize(height, scale_factor)
        new_width == ScaledSize(width, scale_factor)
    IN [arr |-> [shape |-> <<new_height, new_width>> \o SubSeq(img_array.shape, 3, Len(img_array.shape)),
                 px |-> Resample(img_array.px, width, height, new_width, new_height)],
        kernel |-> interpolation_map_cv(interpolation_method)]

upscale_image_pil_swapped(image, scale_factor, interpolation_method) ==
    LET new_width == ScaledSize(image.height, scale_factor)
        new_height == ScaledSize(image.width, scale_factor)
    IN [img |-> [mode |-> image.mode, width |-> new_width, height |-> new_height,
                 px |-> Resample(image.px, image.width, image.height,
                                 new_width, new_height)],
        kernel |-> interpolation_map_pil(interpolation_method)]

upscale_image_pil(image, scale_factor, interpolation_method) ==
    LET new_width == ScaledSize(image.width, scale_factor)
        new_height == ScaledSize(image.height, scale_factor)
    IN [img |-> [mode |-> image.mode, width |-> new_width, height |-> new_height,
                 px |-> Resample(image.px, image.width, image.height,
                                 new_width, new_height)],
        kernel |-> interpolation_map_pil(interpolation_method)]

(***************************************************************************)
(* apply_sharpening (cv): unsharp mask on floats, clipped, back to 8 bits. *)
(***************************************************************************)
\* ndimage.gaussian_filter(a.astype(float), sigma): over every axis of a.
gaussian_filter(px) ==
    LET m == ToFloat(SumAll(px)) \div CountAll(px)
    IN [i \in DOMAIN px |-> [c \in DOMAIN px[i] |-> m]]

\* float grid -> uint8 grid, and whether any sample wrapped.
ToUint8(fpx) ==
    [px |-> [i \in DOMAIN fpx |-> [c \in DOMAIN fpx[i] |-> astype_uint8(fpx[i][c])]],
     wraps |-> \E i \in DOMAIN fpx : \E c \in DOMAIN fpx[i] : Overflows(fpx[i][c])]

apply_sharpening(image, sharpness_factor) ==
    LET img_array == np_array(image)
        blurred == gaussian_filter(img_array.px)
        sharpened ==
            [i \in DOMAIN img_array.px |->
               [c \in DOMAIN img_array.px[i] |->
                  np_clip(ToFloat(img_array.px[i][c])
                          + ((sharpness_factor - 100)
                             * (ToFloat(img_array.px[i][c]) - blurred[i][c])) \div 100)]]
        u == ToUint8(sharpened)
    IN [img |-> Image_fromarray([img_array EXCEPT !.px = u.px]),
        err |-> "none", wraps |-> u.wraps]

(***************************************************************************)
(* apply_noise_reduction.  The result also names the branch taken (band),  *)
(* the library filter called and the parameters handed to it.              *)
(***************************************************************************)
NoDenoise == [band |-> "none", filter |-> "none", params |-> <<>>]

\* cv2.bilateralFilter / fastNlMeansDenoising*: uint8 in, uint8 out, per band.
FilterBands(arr) ==
    LET m == [c \in 1..ArrayChannels(arr) |-> Mean(Channel(arr.px, c))]
    IN [arr EXCEPT !.px = [i \in DOMAIN arr.px |-> [c \in DOMAIN arr.px[i] |-> m[c]]]]

\* if factor <= 0.3 ... elif factor <= 0.6 ... else
band_cv(noise_reduction_factor) ==
    IF noise_reduction_factor <= 30 THEN "light"
    ELSE IF noise_reduction_factor <= 60 THEN "medium"
    ELSE "heavy"

apply_noise_reduction_cv(image, noise_reduction_factor) ==
    LET img_array == np_array(image)
    IN IF band_cv(noise_reduction_factor) = "light"
       THEN \* Light denoising - Gaussian blur
            LET sigma == noise_reduction_factor * 2
                u == ToUint8(gaussian_filter(img_array.px))
            IN [img |-> Image_fromarray([img_array EXCEPT !.px = u.px]),
                err |-> "none", wraps |-> u.wraps,
                denoise |-> [band |-> "light", filter |-> "gaussian_filter",
                             params |-> <<sigma>>]]
       ELSE IF band_cv(noise_reduction_factor) = "medium"
       THEN \* Medium denoising - Bilateral filter (1 or 3 bands only)
            [img |-> IF ArrayChannels(img_array) \in {1, 3}
                     THEN Image_fromarray(FilterBands(img_array)) ELSE image,
             err |-> IF ArrayChannels(img_array) \in {1, 3} THEN "none" ELSE "cv2.error",
             wraps |-> FALSE,
             denoise |-> [band |-> "medium", filter |-> "bilateralFilter",
                          params |-> <<9, 75, 75>>]]
       ELSE \* Heavy denoising - Non-local means
            IF Len(img_array.shape) = 3
            THEN \* fastNlMeansDenoisingColored (3 or 4 bands only)
                 [img |-> IF ArrayChannels(img_array) \in {3, 4}
                          THEN Image_fromarray(FilterBands(img_array)) ELSE image,
                  err |-> IF ArrayChannels(img_array) \in {3, 4}
                          THEN "none" ELSE "cv2.error",
                  wraps |-> FALSE,
                  denoise |-> [band |-> "heavy",
                               filter |-> "fastNlMeansDenoisingColored",
                               params |-> <<10, 10, 7, 21>>]]
            ELSE [img |-> Image_fromarray(FilterBands(img_array)),
                  err |-> "none", wraps |-> FALSE,
                  denoise |-> [band |-> "heavy", filter |-> "fastNlMeansDenoising",
                               params |-> <<10, 7, 21>>]]

band_pil_strict(noise_reduction_factor) ==
    IF noise_reduction_factor < 30 THEN "light"
    ELSE IF noise_reduction_factor < 60 THEN "medium"
    ELSE "heavy"

\* if factor <= 0.3 ... elif factor <= 0.6 ... else
band_pil(noise_reduction_factor) ==
    IF noise_reduction_factor <= 30 THEN "light"
    ELSE IF noise_reduction_factor <= 60 THEN "medium"
    ELSE "heavy"

apply_noise_reduction_pil(image, noise_reduction_factor) ==
    IF band_pil(noise_reduction_factor) = "light"
    THEN \* Light smoothing
         LET radius == noise_reduction_factor * 2
         IN Image_filter(image) @@
            [denoise |-> [band |-> "light", filter |-> "GaussianBlur",
                          params |-> <<radius>>]]
    ELSE IF band_pil(noise_reduction_factor) = "medium"
    THEN \* Medium smoothing
         Image_filter(image) @@
         [denoise |-> [band |-> "medium", filter |-> "SMOOTH_MORE", params |-> <<>>]]
    ELSE \* Heavy smoothing
         LET smoothed == Image_filter(image)
             radius == (noise_reduction_factor - 60) * 3
         IN (IF smoothed.err # "none" THEN smoothed ELSE Image_filter(smoothed.img)) @@
            [denoise |-> [band |-> "heavy", filter |-> "SMOOTH_MORE+GaussianBlur",
                          params |-> <<radius>>]]

(***************************************************************************)
(* enhance_image: the state of one call is [img, trace, err, wraps,        *)
(* kernel, denoise]; trace lists the stages entered, err is the exception  *)
(* that ended the call ("none" when it returned).                          *)
(***************************************************************************)
Begin(img) ==
    [img |-> img, trace |-> <<>>, err |-> "none", wraps |-> FALSE,
     kernel |-> "none", denoise |-> NoDenoise]

\* A stage that is entered: its name joins the trace and its outcome replaces
\* the image, or raises.
Enter(r, stage, out) ==
    [r EXCEPT !.trace = Append(@, stage),
              !.img = IF out.err = "none" THEN out.img ELSE @,
              !.err = out.err,
              !.wraps = @ \/ out.wraps]

\* img_array.astype('uint8') on an array that already holds 8-bit samples.
Uint8Array(arr) ==
    [arr EXCEPT !.px = [i \in DOMAIN arr.px |->
                          [c \in DOMAIN arr.px[i] |-> arr.px[i][c] % 256]]]

(* ---- src/image_enhance.py ---- *)

scale_cv_always(image, s) ==
    LET up == upscale_image_cv(np_array(image), s.scale_factor, s.interpolation)
    IN [Begin(Image_fromarray(Uint8Array(up.arr)))
          EXCEPT !.trace = <<"scale">>, !.kernel = up.kernel]

\* 1. np.array, upscaling if scale_factor != 1.0, 2. back to PIL.
scale_cv(image, s) ==
    LET img_array == np_array(image)
    IN IF s.scale_factor # 100
       THEN LET up == upscale_image_cv(img_array, s.scale_factor, s.interpolation)
            IN [Begin(Image_fromarray(Uint8Array(up.arr)))
                  EXCEPT !.trace = <<"scale">>, !.kernel = up.kernel]
       ELSE Begin(Image_fromarray(Uint8Array(img_array)))

\* 3. Apply brightness
brightness_cv(r, s) ==
    IF r.err = "none" /\ s.brightness # 100
    THEN Enter(r, "brightness", ImageEnhance_Brightness(r.img, s.brightness))
    ELSE r

\* 4. Apply contrast
contrast_cv(r, s) ==
    IF r.err = "none" /\ s.contrast # 100
    THEN Enter(r, "contrast", ImageEnhance_Contrast(r.img, s.contrast))
    ELSE r

\* 5. Apply saturation
saturation_cv(r, s) ==
    IF r.err = "none" /\ s.saturation # 100
    THEN Enter(r, "saturation", ImageEnhance_Color(r.img, s.saturation))
    ELSE r

\* 6. Apply sharpening
sharpen_cv(r, s) ==
    IF r.err = "none" /\ s.sharpness > 100
    THEN Enter(r, "sharpen", apply_sharpening(r.img, s.sharpness))
    ELSE r

\* 7. Apply noise reduction
denoise_cv(r, s) ==
    IF r.err = "none" /\ s.noise_reduction > 0
    THEN LET out == apply_noise_reduction_cv(r.img, s.noise_reduction)
         IN [Enter(r, "denoise", out) EXCEPT !.denoise = out.denoise]
    ELSE r

enhance_image_cv(image, s) ==
    denoise_cv(sharpen_cv(saturation_cv(contrast_cv(brightness_cv(
        scale_cv(image, s), s), s), s), s), s)

(* ---- src/fixed_image_enhance.py ---- *)

\* image.copy(), 1. upscaling if scale_factor != 1.0
scale_pil(image, s) ==
    IF s.scale_factor # 100
    THEN LET up == upscale_image_pil(image, s.scale_factor, s.interpolation)
         IN [Begin(up.img) EXCEPT !.trace = <<"scale">>, !.kernel = up.kernel]
    ELSE Begin(image)

\* 2. Apply brightness
brightness_pil(r, s) ==
    IF r.err = "none" /\ s.brightness # 100
    THEN Enter(r, "brightness", ImageEnhance_Brightness(r.img, s.brightness))
    ELSE r

\* 3. Apply contrast
contrast_pil(r, s) ==
    IF r.err = "none" /\ s.contrast # 100
    THEN Enter(r, "contrast", ImageEnhance_Contrast(r.img, s.contrast))
    ELSE r

\* 4. Apply saturation
saturation_pil(r, s) ==
    IF r.err = "none" /\ s.saturation # 100
    THEN Enter(r, "saturation", ImageEnhance_Color(r.img, s.saturation))
    ELSE r

\* 5. Apply sharpening
sharpen_pil(r, s) ==
    IF r.err = "none" /\ s.sharpness # 100
    THEN Enter(r, "sharpen", ImageEnhance_Sharpness(r.img, s.sharpness))
    ELSE r

\* 6. Apply noise reduction
denoise_pil(r, s) ==
    IF r.err = "none" /\ s.noise_reduction > 0
    THEN LET out == apply_noise_reduction_pil(r.img, s.noise_reduction)
         IN [Enter(r, "denoise", out) EXCEPT !.denoise = out.denoise]
    ELSE r

enhance_image_pil_swapped(image, s) ==
    sharpen_pil(denoise_pil(saturation_pil(contrast_pil(brightness_pil(
        scale_pil(image, s), s), s), s), s), s)

enhance_image_pil(image, s) ==
    denoise_pil(sharpen_pil(saturation_pil(contrast_pil(brightness_pil(
        scale_pil(image, s), s), s), s), s), s)

enhance_image(v, image, s) ==
    IF v = "cv" THEN enhance_image_cv(image, s) ELSE enhance_image_pil(image, s)

(***************************************************************************)
(* get_image_stats.  np.mean is kept in hundredths; np.std is not          *)
(* modelled.  bytes is len(image.tobytes()).                               *)
(***************************************************************************)
get_image_stats(v, image) ==
    LET img_array == np_array(image)
    IN [width |-> image.width,
        height |-> image.height,
        channels |-> IF v = "cv" THEN Len(img_array.shape)
                     ELSE IF Len(img_array.shape) > 2 THEN Len(img_array.shape) ELSE 1,
        mean_brightness |-> (100 * SumAll(img_array.px)) \div CountAll(img_array.px),
        bytes |-> image.width * image.height * Bands(image.mode)]

(***************************************************************************)
(* validate_image.  A file name is kept as name.split('.').                *)
(***************************************************************************)
supported_formats == {"PNG", "JPEG", "JPG", "TIFF", "TIF"}

\* str.upper() on the extensions that occur.
Upper(x) ==
    CASE x = "png" -> "PNG"
      [] x = "Png" -> "PNG"
      [] x = "jpeg" -> "JPEG"
      [] x = "tif" -> "TIF"
      [] x = "gif" -> "GIF"
      [] x = "exe" -> "EXE"
      [] x = "readme" -> "README"
      [] OTHER -> x

validate_image_anywhere(file) ==
    IF file.content = "none" THEN FALSE
    ELSE \E i \in DOMAIN file.name : Upper(file.name[i]) \in supported_formats

validate_image(file) ==
    IF file.content = "none" THEN FALSE
    ELSE LET file_extension == Upper(file.name[Len(file.name)])
         IN file_extension \in supported_formats
(***************************************************************************)
(* Direct calls of ImageEnhancer.enhance_image: any bitmap a caller can    *)
(* build, any settings dict.                                               *)
(***************************************************************************)
CoreBitmaps == BitmapsOf({"L", "RGB", "P", "LA"})

NoRun == Begin(NoImage)
NoFile == [name |-> <<>>, content |-> "none", image |-> NoImage]
NoStats == [original |-> <<>>, enhanced |-> <<>>]

InitCore ==
    /\ variant \in Variants
    /\ pc = "idle"
    /\ session_enhancer = TRUE
    /\ uploaded_file = NoFile
    /\ original_image = NoImage
    /\ settings = Defaults
    /\ run = NoRun
    /\ shown = {}
    /\ stats = NoStats

CallEnhance ==
    /\ pc = "idle"
    /\ \E image \in CoreBitmaps, s \in CoreSettings :
          /\ original_image' = image
          /\ settings' = s
          /\ run' = enhance_image(variant, image, s)
    /\ pc' = "returned"
    /\ UNCHANGED <<variant, session_enhancer, uploaded_file, shown, stats>>

NextCore == CallEnhance

SpecCore == InitCore /\ [][NextCore]_vars

(***************************************************************************)
(* main(): one run of the Streamlit script, top to bottom.  pc is the      *)
(* position in the script; shown is what the page has displayed.           *)
(***************************************************************************)
\* What Image.open can give for an upload.
HostModes == {"L", "RGB", "RGBA", "P", "LA"}

HostBitmaps ==
    UNION {{Checker(m, w, h, p[1], p[2]) :
                w \in 1..MaxW, h \in 1..MaxH,
                p \in {CHOOSE q \in Patterns(m) : q[1] # q[2]}} : m \in HostModes}

FileNames == {<<"photo", "png">>, <<"a", "b", "TIF">>,
              <<"notes", "gif">>, <<"readme">>, <<"photo", "png", "exe">>}

\* The uploads: a decodable image under any name, and an undecodable file.
Uploads ==
    {[name |-> n, content |-> "image", image |-> b] :
        n \in FileNames, b \in HostBitmaps}
    \cup {[name |-> n, content |-> "corrupt", image |-> NoImage] : n \in FileNames}

\* Settings the sliders and the selectbox of main can produce.
HostSettings == {s \in CoreSettings : InRange(s)}

Init ==
    /\ variant \in Variants
    /\ pc = "start"
    /\ session_enhancer = FALSE
    /\ uploaded_file = NoFile
    /\ original_image = NoImage
    /\ settings = Defaults
    /\ run = NoRun
    /\ shown = {}
    /\ stats = NoStats

\* Lines up to the first return: the enhancer is created once per session;
\* st.file_uploader gives None or the upload.
NoUpload ==
    /\ pc = "start"
    /\ session_enhancer' = TRUE
    /\ shown' = {"info"}
    /\ pc' = "done"
    /\ UNCHANGED <<variant, uploaded_file, original_image, settings, run, stats>>

Upload ==
    /\ pc = "start"
    /\ session_enhancer' = TRUE
    /\ \E f \in Uploads : uploaded_file' = f
    /\ pc' = "validate"
    /\ UNCHANGED <<variant, original_image, settings, run, shown, stats>>

\* is_valid, message = validate_image(uploaded_file)
Validate ==
    /\ pc = "validate"
    /\ IF validate_image(uploaded_file)
       THEN pc' = "load" /\ UNCHANGED shown
       ELSE pc' = "done" /\ shown' = {"error_validate"}
    /\ UNCHANGED <<variant, session_enhancer, uploaded_file, original_image,
                   settings, run, stats>>

\* RGBA -> RGB: Image.convert drops the alpha band.
convert_RGB(image) ==
    [image EXCEPT !.mode = "RGB",
                  !.px = [i \in DOMAIN image.px |-> SubSeq(image.px[i], 1, 3)]]

\* original_image = Image.open(uploaded_file), RGBA converted to RGB.
Load ==
    /\ pc = "load"
    /\ IF uploaded_file.content = "corrupt"
       THEN /\ pc' = "done"
            /\ shown' = {"error_load"}
            /\ UNCHANGED original_image
       ELSE /\ original_image' = IF uploaded_file.image.mode = "RGBA"
                                 THEN convert_RGB(uploaded_file.image)
                                 ELSE uploaded_file.image
            /\ shown' = IF variant = "pil" THEN {"loaded"} ELSE {}
            /\ pc' = "controls"
    /\ UNCHANGED <<variant, session_enhancer, uploaded_file, settings, run, stats>>

\* The reset button: session values back to the defaults, st.rerun().
Reset ==
    /\ pc = "controls"
    /\ pc' = "start"
    /\ uploaded_file' = NoFile
    /\ original_image' = NoImage
    /\ shown' = {}
    /\ UNCHANGED <<variant, session_enhancer, settings, run, stats>>

Enhance_in_place ==
    /\ pc = "controls"
    /\ \E s \in HostSettings :
          /\ settings' = s
          /\ run' = enhance_image(variant, original_image, s)
    /\ original_image' = run'.img
    /\ IF run'.err = "none"
       THEN pc' = "render" /\ UNCHANGED shown
       ELSE pc' = "done" /\ shown' = shown \cup {"error_enhance"}
    /\ UNCHANGED <<variant, session_enhancer, uploaded_file, stats>>

Enhance_unguarded ==
    /\ pc = "controls"
    /\ \E s \in HostSettings :
          /\ settings' = s
          /\ run' = enhance_image(variant, original_image, s)
    /\ pc' = "render"
    /\ UNCHANGED <<variant, session_enhancer, uploaded_file, original_image,
                   shown, stats>>

\* The widgets give the settings dict; enhance_image runs inside try.
Enhance ==
    /\ pc = "controls"
    /\ \E s \in HostSettings :
          /\ settings' = s
          /\ run' = enhance_image(variant, original_image, s)
    /\ IF run'.err = "none"
       THEN pc' = "render" /\ UNCHANGED shown
       ELSE pc' = "done" /\ shown' = shown \cup {"error_enhance"}
    /\ UNCHANGED <<variant, session_enhancer, uploaded_file, original_image, stats>>

\* The tabs: both images, the download button, the statistics of both.
Render ==
    /\ pc = "render"
    /\ shown' = shown \cup {"original", "enhanced", "download", "stats"}
    /\ stats' = [original |-> get_image_stats(variant, original_image),
                 enhanced |-> get_image_stats(variant, run.img)]
    /\ pc' = "done"
    /\ UNCHANGED <<variant, session_enhancer, uploaded_file, original_image,
                   settings, run>>

\* Any interaction reruns the script; only st.session_state survives.
Rerun ==
    /\ pc = "done"
    /\ pc' = "start"
    /\ uploaded_file' = NoFile
    /\ original_image' = NoImage
    /\ settings' = Defaults
    /\ run' = NoRun
    /\ shown' = {}
    /\ stats' = NoStats
    /\ UNCHANGED <<variant, session_enhancer>>

Next ==
    \/ NoUpload
    \/ Upload
    \/ Validate
    \/ Load
    \/ Reset
    \/ Enhance
    \/ Render
    \/ Rerun

Spec == Init /\ [][Next]_vars

(***************************************************************************)
(* Properties.                                                             *)
(***************************************************************************)
Returned == pc = "returned"

\* Every field but the interpolation name at its identity value.
IdentityParams(s) == [s EXCEPT !.interpolation = "Bicubic"] = Defaults

\* C1: a call of enhance_image with a ParameterSet that has a field outside
\* its declared range ends in InvalidParameterError and enters no stage.
C1_InvalidParamsRejected ==
    (Returned /\ ~InRange(settings))
        => (run.err = "InvalidParameterError" /\ run.trace = <<>>)

\* C2: the resampler never picks a kernel for an interpolation name outside
\* Nearest, Bilinear, Bicubic, Lanczos; such a call ends in
\* InvalidParameterError.
C2_UnknownKernelRejected ==
    (Returned /\ settings.scale_factor # 100
              /\ settings.interpolation \notin InterpolationNames)
        => (run.err = "InvalidParameterError" /\ run.kernel = "none")

\* C3: with the identity parameters (any interpolation name) an RGB or
\* grayscale bitmap comes back with no stage entered and with the same size,
\* mode and samples.
C3_Identity ==
    (Returned /\ original_image.mode \in {"L", "RGB"} /\ IdentityParams(settings))
        => (run.err = "none" /\ run.trace = <<>> /\ run.img = original_image)

C3_Witness ==
    /\ Returned
    /\ variant = "cv"
    /\ original_image.mode = "RGB"
    /\ original_image.width = 2
    /\ original_image.px[1] # original_image.px[2]
    /\ settings = [Defaults EXCEPT !.interpolation = "Lanczos"]
    /\ run.img = original_image

\* C4: the stages a call enters follow the order scale, brightness,
\* contrast, saturation, sharpen, denoise, each at most once.
StageRank(stage) ==
    CASE stage = "scale" -> 1
      [] stage = "brightness" -> 2
      [] stage = "contrast" -> 3
      [] stage = "saturation" -> 4
      [] stage = "sharpen" -> 5
      [] stage = "denoise" -> 6

C4_StageOrder ==
    \A i \in DOMAIN run.trace : \A j \in DOMAIN run.trace :
        i < j => StageRank(run.trace[i]) < StageRank(run.trace[j])

C4_Witness ==
    /\ Returned
    /\ variant = "pil"
    /\ run.err = "none"
    /\ run.trace = <<"scale", "brightness", "contrast", "saturation",
                     "sharpen", "denoise">>

ReachedDenoiseStep ==
    Returned /\ (run.err = "none" \/ run.trace[Len(run.trace)] = "denoise")

C6_BandSelection ==
    (/\ ReachedDenoiseStep
     /\ settings.noise_reduction >= 0 /\ settings.noise_reduction <= 100)
        => LET level == settings.noise_reduction
               d == run.denoise
           IN /\ (level = 0) <=> (d.band = "none")
              /\ (level = 0) <=> (\A i \in DOMAIN run.trace : run.trace[i] # "denoise")
              /\ (0 < level /\ level <= 30) <=> (d.band = "light")
              /\ (30 < level /\ level <= 60) <=> (d.band = "medium")
              /\ (60 < level /\ level <= 100) <=> (d.band = "heavy")
              /\ d.band = "light" => d.filter \in {"gaussian_filter", "GaussianBlur"}
              /\ d.band = "medium" => d.filter \in {"bilateralFilter", "SMOOTH_MORE"}
              /\ d.band = "heavy" =>
                    d.filter \in {"fastNlMeansDenoising", "fastNlMeansDenoisingColored",
                                  "SMOOTH_MORE+GaussianBlur"}

C6_Witness ==
    /\ Returned
    /\ variant = "pil"
    /\ run.err = "none"
    /\ settings.noise_reduction = 30
    /\ run.denoise.band = "light"

\* C7: a page run whose call took the heavy denoise branch does not end in
\* a failure: when the heavy filter raises, a Gaussian blur takes its place
\* and the run completes.
C7_HeavyFallback ==
    run.denoise.band = "heavy"
        => (run.err = "none" /\ "error_enhance" \notin shown)

\* C8: for a sharpness in [0.5, 1.0] the sharpen stage is not entered.
C8_NoSoftening ==
    (Returned /\ settings.sharpness >= 50 /\ settings.sharpness <= 100)
        => (\A i \in DOMAIN run.trace : run.trace[i] # "sharpen")

\* C9: for a ParameterSet inside the ranges every sample of the result is in
\* 0..255 and no conversion back to 8 bits was handed a value outside
\* 0..255 (values are clamped, never wrapped modulo 256).
C9_RangeLaw ==
    (Returned /\ InRange(settings))
        => (/\ ~run.wraps
            /\ \A i \in DOMAIN run.img.px : \A c \in DOMAIN run.img.px[i] :
                  run.img.px[i][c] \in 0..255)

C9_Witness ==
    /\ Returned
    /\ variant = "cv"
    /\ InRange(settings)
    /\ settings = [Defaults EXCEPT !.sharpness = 300]
    /\ original_image.mode = "L"
    /\ original_image.px = << <<128>>, <<200>> >>
    /\ run.img.px = << <<56>>, <<255>> >>

\* C10: an upload whose band count is neither 1 nor 3 is rejected: no stage
\* is entered on it, no enhanced image is shown and no statistics are
\* computed.
C10_UnsupportedRejected ==
    (original_image.mode # "none" /\ Bands(original_image.mode) \notin {1, 3})
        => (/\ run.trace = <<>>
            /\ pc # "render"
            /\ "enhanced" \notin shown
            /\ stats = NoStats)

\* C11: the contrast stage pivots on 128: in a call with a contrast in
\* [0.5, 2.0] that enters the contrast stage only, every sample that is 128
\* in the input is 128 in the result, whatever the other pixels are.
C11_ContrastPivot128 ==
    (/\ Returned
     /\ run.err = "none"
     /\ run.trace = <<"contrast">>
     /\ settings.contrast >= 50 /\ settings.contrast <= 200)
        => \A i \in DOMAIN original_image.px : \A c \in DOMAIN original_image.px[i] :
              original_image.px[i][c] = 128 => run.img.px[i][c] = 128

\* C12: on a grayscale bitmap a saturation in [0.0, 2.0], every other
\* parameter at its identity, gives back the input: same mode (one channel),
\* same size, same samples.
C12_GraySaturationNoOp ==
    (/\ Returned
     /\ original_image.mode = "L"
     /\ settings.saturation >= 0 /\ settings.saturation <= 200
     /\ IdentityParams([settings EXCEPT !.saturation = 100]))
        => (run.err = "none" /\ run.img = original_image)

C12_Witness ==
    /\ Returned
    /\ original_image.mode = "L"
    /\ original_image.px = << <<128>>, <<200>> >>
    /\ settings = [Defaults EXCEPT !.saturation = 0]
    /\ run.trace = <<"saturation">>
    /\ run.img = original_image

\* C13: the statistics the page computes report, for the original and for
\* the enhanced bitmap, channels equal to the bitmap's channel count (1 for
\* grayscale, 3 for RGB), so that width * height * channels is its number of
\* bytes.
C13_ChannelCount ==
    stats # NoStats
        => (/\ stats.original.channels = Bands(original_image.mode)
            /\ stats.original.width * stats.original.height * stats.original.channels
                  = stats.original.bytes
            /\ stats.enhanced.channels = Bands(run.img.mode)
            /\ stats.enhanced.width * stats.enhanced.height * stats.enhanced.channels
                  = stats.enhanced.bytes)

\* C15: a page run in which a stage of enhance_image raised shows the error
\* and ends: it displays no enhanced image, offers no download and computes
\* no statistics.
C15_FailureAborts ==
    run.err # "none"
        => (/\ pc = "done"
            /\ "error_enhance" \in shown
            /\ shown \cap {"enhanced", "download", "stats"} = {}
            /\ stats = NoStats)

C15_Witness ==
    /\ pc = "done"
    /\ variant = "cv"
    /\ original_image.mode = "LA"
    /\ run.err = "cv2.error"
    /\ run.trace # <<>>
    /\ run.trace[Len(run.trace)] = "denoise"
    /\ "error_enhance" \in shown

\* C16: once enhance_image has returned or failed in a page run, the
\* caller's original_image is still the bitmap that was loaded from the
\* upload (same size, mode and samples), and the statistics shown for the
\* original are those of that bitmap.
C16_OriginalReadOnly ==
    LET loaded == IF uploaded_file.image.mode = "RGBA"
                  THEN convert_RGB(uploaded_file.image)
                  ELSE uploaded_file.image
    IN (pc = "render" \/ "error_enhance" \in shown \/ stats # NoStats)
          => (/\ original_image = loaded
              /\ stats # NoStats
                    => stats.original = get_image_stats(variant, loaded))

C16_Witness ==
    /\ pc = "done"
    /\ stats # NoStats
    /\ settings.scale_factor = 150
    /\ settings.brightness = 150
    /\ run.img # original_image
    /\ original_image = uploaded_file.image
    /\ original_image.width = 2
    /\ stats.original.width = 2
    /\ stats.enhanced.width = 3

\* C17: in a call that enters the denoise stage only, a heavy-band level
\* hands the filter a strength strictly greater than every smaller
\* heavy-band level does on the same bitmap, and a medium-band level hands
\* the filter the same parameters as every other medium-band level.
C17_HeavyStrengthGrows ==
    (/\ Returned
     /\ run.err = "none"
     /\ run.trace = <<"denoise">>
     /\ settings.noise_reduction <= 100)
        => LET at(a) == enhance_image(variant, original_image,
                                      [settings EXCEPT !.noise_reduction = a]).denoise
           IN /\ run.denoise.band = "heavy" =>
                    \A a \in 61..(settings.noise_reduction - 1) :
                        /\ at(a).band = "heavy"
                        /\ at(a).params[1] < run.denoise.params[1]
              /\ run.denoise.band = "medium" =>
                    \A a \in 31..60 : at(a).params = run.denoise.params

\* C18: in a page run enhance_image and get_image_stats are called only
\* with a file uploaded whose name ends, after its last dot and in upper
\* case, in PNG, JPEG, JPG, TIFF or TIF and whose image was opened; the
\* image handed to enhance_image is never RGBA; and a run that stopped at
\* the upload, validation or loading step has called neither.
C18_CallOrder ==
    /\ (run # NoRun \/ stats # NoStats)
          => (/\ uploaded_file # NoFile
              /\ Upper(uploaded_file.name[Len(uploaded_file.name)])
                    \in {"PNG", "JPEG", "JPG", "TIFF", "TIF"}
              /\ uploaded_file.content = "image"
              /\ original_image.mode \notin {"none", "RGBA"})
    /\ (shown \cap {"info", "error_validate", "error_load"} # {})
          => (pc = "done" /\ run = NoRun /\ stats = NoStats)

C18_Witness ==
    /\ pc = "render"
    /\ run # NoRun
    /\ uploaded_file.name = <<"a", "b", "TIF">>
    /\ uploaded_file.image.mode = "RGBA"
    /\ original_image.mode = "RGB"
====
